---- MODULE Spec2Model ----
(***************************************************************************)
(* Market-maker ledger (AMM/trading/market_maker.py) and PnL attribution   *)
(* engines (AMM/utils/pnl.py).                                             *)
(*                                                                         *)
(* Ledger and engines: numbers are exact integers; prices, volumes, fees    *)
(* and multipliers are drawn from integer sets, on which the Python float  *)
(* arithmetic of the source is exact.  Quotes are in fixed point: a price  *)
(* is a whole number of 1 / QuoteScale and tanh is rounded to four         *)
(* decimals, so a quote of the model is the quote of the source up to      *)
(* current_price * max_skew / 10000; equal fixed-point values do not say   *)
(* that the floats are equal.  The one exact fact kept of a float is       *)
(* whether tanh returned exactly 1.0, which decides whether a non-zero     *)
(* skew is exactly current_price * max_skew.  skewed_quote is defined where*)
(* raw_skew is a whole number of quarters.  Timestamps are integers        *)
(* ordered as the dates are.                                               *)
(* The bid_price / offer_price fields of the trade records are carried by  *)
(* no operation modelled here and are left out of the records.             *)
(***************************************************************************)
EXTENDS Integers, Sequences, FiniteSets, TLC

\* ------------------------------------------------------------------ bounds
MaxIngest == 2        \* ledger: calls to add_trade / update_ETF_position
MaxQuoted == 2        \* ledger: length of the quote log
MaxInitCompleted == 1 \* ledger: length of the list handed to the constructor
MaxClientLog == 2     \* engine: length of mm.completed_trades
MaxHedgeLog == 1      \* engine: length of mm.ETF_positions

\* ------------------------------------------------------------- value sets
Tickers == {"X", "Z"}
PriceColumns == {"X"}            \* prices.columns; "Z" is never priced
Actions == {"buy", "sell", "hold"}
ValidActions == {"buy", "sell"}
NoDate == 0                      \* prev_date = None
TableDates == {1, 2}             \* prices.index
TradeDates == {1, 2, 3}          \* 3 is a timestamp outside prices.index
AllDates == TableDates \cup TradeDates

\* CompletedTrade (trades.py) without bid_price / offer_price
ClientTradeSet(T, V, P, A, R, D) ==
    [ticker : T, trade_volume : V, trade_price : P, mm_action : A,
     ref_price : R, date : D]

\* ExecutedTrade / ETFPosition (market_maker.py): same five fields
HedgeTradeSet(T, V, P, A, D) ==
    [ticker : T, trade_volume : V, trade_price : P, action : A, date : D]

\* QuotedTrade (trades.py) without bid_price / offer_price
QuotedTradeSet(T, V, R, D) ==
    [ticker : T, trade_volume : V, ref_price : R, date : D]

\* all sequences over S of length at most n
SeqUpTo(S, n) == UNION {[1..k -> S] : k \in 0..n}

EmptyMap == <<>>

\* ------------------------------------------------------------------ state
VARIABLES
    \* MarketMaker fields
    quoted_trades, completed_trades, current_positions, ETF_positions,
    \* outcome of the last MarketMaker call and the arguments of all
    \* add_trade / update_ETF_position calls made so far
    last_call, ingested,
    \* arguments of the engines
    prices, fees, futures_multipliers,
    \* compute_pnl_with_attribution: program counter, locals, returned table
    pc, att, pnl_df,
    \* compute_simple_pnl: locals and returned series
    simple,
    \* the stateless helpers (transaction_cost, fixed_quote, skewed_quote,
    \* Exchange.execute): arguments and returned value of the current call
    calc

ledgerVars == <<quoted_trades, completed_trades, current_positions,
                ETF_positions, last_call, ingested>>
inputVars == <<prices, fees, futures_multipliers>>
engineVars == <<pc, att, pnl_df, simple>>
vars == <<quoted_trades, completed_trades, current_positions, ETF_positions,
          last_call, ingested, prices, fees, futures_multipliers,
          pc, att, pnl_df, simple, calc>>

\* ================================================================= ledger
\* trade records the ledger specification ingests; the dataclasses of
\* trades.py and market_maker.py have no __post_init__, so a record can be
\* built with any volume: -5 stands for the non-positive ones
LedgerClientTrades ==
    ClientTradeSet(Tickers, {-5, 5, 10}, {99}, Actions, {100}, {1})
LedgerHedgeTrades ==
    HedgeTradeSet(Tickers, {5, 10}, {100}, Actions, {1})
LedgerQuotedTrades ==
    QuotedTradeSet(Tickers, {10}, {100}, {1})

NoCall == [op |-> "none", status |-> "ok", ticker |-> "", action |-> ""]

\* current_positions.get(ticker, Position(ticker, 0.0)).position_volume
PositionVolume(positions, ticker) ==
    IF ticker \in DOMAIN positions THEN positions[ticker] ELSE 0

\* UpdatePosition with a buy that overwrites the position instead of adding
UpdatePosition_Overwrite(positions, ticker, action, volume) ==
    LET old == PositionVolume(positions, ticker)
        stored(new) == [t \in (DOMAIN positions) \cup {ticker} |->
                           IF t = ticker THEN new ELSE positions[t]]
    IN  IF action = "buy"
        THEN [raised |-> FALSE, positions |-> stored(volume)]
        ELSE IF action = "sell"
        THEN [raised |-> FALSE, positions |-> stored(old - volume)]
        ELSE [raised |-> TRUE, positions |-> positions]

\* UpdatePosition with an else branch that sells instead of raising
UpdatePosition_ElseSell(positions, ticker, action, volume) ==
    LET old == PositionVolume(positions, ticker)
        stored(new) == [t \in (DOMAIN positions) \cup {ticker} |->
                           IF t = ticker THEN new ELSE positions[t]]
    IN  IF action = "buy"
        THEN [raised |-> FALSE, positions |-> stored(old + volume)]
        ELSE [raised |-> FALSE, positions |-> stored(old - volume)]

\* the position update shared by add_trade (62-71) and
\* update_ETF_position (79-91): buy adds the volume, sell subtracts it, any
\* other action raises ValueError before the map is written
UpdatePosition(positions, ticker, action, volume) ==
    LET old == PositionVolume(positions, ticker)
        stored(new) == [t \in (DOMAIN positions) \cup {ticker} |->
                           IF t = ticker THEN new ELSE positions[t]]
    IN  IF action = "buy"
        THEN [raised |-> FALSE, positions |-> stored(old + volume)]
        ELSE IF action = "sell"
        THEN [raised |-> FALSE, positions |-> stored(old - volume)]
        ELSE [raised |-> TRUE, positions |-> positions]

\* MarketMaker.__init__
InitLedger ==
    /\ quoted_trades \in SeqUpTo(LedgerQuotedTrades, MaxQuoted)
    /\ completed_trades \in SeqUpTo(LedgerClientTrades, MaxInitCompleted)
    /\ current_positions = EmptyMap
    /\ ETF_positions = <<>>
    /\ last_call = NoCall
    /\ ingested = <<>>

\* add_quoted_trade that also books the quoted volume as a buy
add_quoted_trade_MovesPosition(trade) ==
    /\ Len(quoted_trades) < MaxQuoted
    /\ quoted_trades' = Append(quoted_trades, trade)
    /\ current_positions' =
          UpdatePosition(current_positions, trade.ticker, "buy",
                         trade.trade_volume).positions
    /\ last_call' = [op |-> "add_quoted_trade", status |-> "ok",
                     ticker |-> trade.ticker, action |-> ""]
    /\ UNCHANGED <<completed_trades, ETF_positions, ingested>>

\* MarketMaker.add_quoted_trade
add_quoted_trade(trade) ==
    /\ Len(quoted_trades) < MaxQuoted
    /\ quoted_trades' = Append(quoted_trades, trade)
    /\ last_call' = [op |-> "add_quoted_trade", status |-> "ok",
                     ticker |-> trade.ticker, action |-> ""]
    /\ UNCHANGED <<completed_trades, current_positions, ETF_positions,
                   ingested>>

\* MarketMaker.add_trade: the append comes first, then the position update
\* or the ValueError
add_trade(trade) ==
    LET upd == UpdatePosition(current_positions, trade.ticker,
                              trade.mm_action, trade.trade_volume)
    IN  /\ Len(ingested) < MaxIngest
        /\ completed_trades' = Append(completed_trades, trade)
        /\ ingested' = Append(ingested, <<"client", trade>>)
        /\ current_positions' = upd.positions
        /\ last_call' = [op |-> "add_trade",
                         status |-> IF upd.raised THEN "error" ELSE "ok",
                         ticker |-> trade.ticker,
                         action |-> trade.mm_action]
        /\ UNCHANGED <<quoted_trades, ETF_positions>>

\* MarketMaker.update_ETF_position: the position update or the ValueError
\* comes first, then the append to ETF_positions
update_ETF_position(executed_trade) ==
    LET upd == UpdatePosition(current_positions, executed_trade.ticker,
                              executed_trade.action,
                              executed_trade.trade_volume)
    IN  /\ Len(ingested) < MaxIngest
        /\ ingested' = Append(ingested, <<"hedge", executed_trade>>)
        /\ current_positions' = upd.positions
        /\ ETF_positions' = IF upd.raised THEN ETF_positions
                            ELSE Append(ETF_positions, executed_trade)
        /\ last_call' = [op |-> "update_ETF_position",
                         status |-> IF upd.raised THEN "error" ELSE "ok",
                         ticker |-> executed_trade.ticker,
                         action |-> executed_trade.action]
        /\ UNCHANGED <<quoted_trades, completed_trades>>

\* the engines are not running in the ledger specification
EngineIdle ==
    /\ prices = <<>>
    /\ fees = [fee_rate_client |-> 0, fee_rate_hedge |-> 0,
               fee_per_unit_client |-> 0, fee_per_unit_hedge |-> 0]
    /\ futures_multipliers = EmptyMap
    /\ pc = "idle"
    /\ att = EmptyMap
    /\ pnl_df = EmptyMap
    /\ simple = EmptyMap

Init == InitLedger /\ EngineIdle /\ calc = EmptyMap

Next ==
    \/ \E trade \in LedgerQuotedTrades :
          add_quoted_trade(trade) /\ UNCHANGED <<inputVars, engineVars, calc>>
    \/ \E trade \in LedgerClientTrades :
          add_trade(trade) /\ UNCHANGED <<inputVars, engineVars, calc>>
    \/ \E executed_trade \in LedgerHedgeTrades :
          update_ETF_position(executed_trade)
          /\ UNCHANGED <<inputVars, engineVars, calc>>

Spec == Init /\ [][Next]_vars

\* ================================================================ engines
\* trade records, price tables and parameters the engine specification
\* draws its inputs from.  Client records reach mm.completed_trades with any
\* action (constructor list, or add_trade, which appends before it checks);
\* hedge records reach mm.ETF_positions through update_ETF_position, which
\* appends only after a buy or a sell.
PnlClientTrades ==
    ClientTradeSet(Tickers, {10}, {99}, Actions, {100}, TableDates)
PnlHedgeTrades ==
    HedgeTradeSet(PriceColumns, {10}, {100}, ValidActions, TradeDates)

\* prices: rows (date, price per column) with distinct dates, in any order
PriceRows(d, V) == {[date |-> d, px |-> [c \in PriceColumns |-> v]] : v \in V}
PriceTables ==
    {<<r1, r2>> : r1 \in PriceRows(1, {100}), r2 \in PriceRows(2, {100, 105})}
    \cup
    {<<r2, r1>> : r1 \in PriceRows(1, {100}), r2 \in PriceRows(2, {100, 105})}

FeeSchedules ==
    {[fee_rate_client |-> 0, fee_rate_hedge |-> 0,
      fee_per_unit_client |-> 0, fee_per_unit_hedge |-> 0],
     [fee_rate_client |-> 1, fee_rate_hedge |-> 2,
      fee_per_unit_client |-> 3, fee_per_unit_hedge |-> 4]}

\* futures_multipliers: None, or a table giving "X" the multiplier 5
MultiplierTables == {EmptyMap, [t \in {"X"} |-> 5]}

Abs(x) == IF x < 0 THEN -x ELSE x

RECURSIVE SumOver(_, _)
\* sum of f[x] over the x of the finite set S
SumOver(S, f) ==
    IF S = {} THEN 0
    ELSE LET x == CHOOSE y \in S : TRUE
         IN  f[x] + SumOver(S \ {x}, f)

\* transaction_cost with the per-unit fee charged once per trade
transaction_cost_FlatFee(volume, price, fee_rate, fee_per_unit) ==
    fee_rate * (Abs(volume) * price) + fee_per_unit

transaction_cost(volume, price, fee_rate, fee_per_unit) ==
    LET notional == Abs(volume) * price
    IN  fee_rate * notional + fee_per_unit * Abs(volume)

\* one step of an ascending sort by date: row goes after the rows of the
\* sorted prefix whose date is not greater
InsertRow(sorted, row) ==
    LET k == Cardinality({j \in 1..Len(sorted) : sorted[j].date <= row.date})
    IN  SubSeq(sorted, 1, k) \o <<row>> \o SubSeq(sorted, k + 1, Len(sorted))

\* sort_index that returns the table in the order it was given
sort_index_Unsorted(table) == table

RECURSIVE sort_index(_)
\* prices.sort_index()
sort_index(table) ==
    IF table = <<>> THEN <<>>
    ELSE InsertRow(sort_index(SubSeq(table, 1, Len(table) - 1)),
                   table[Len(table)])

\* prices.index
Index(table) == [k \in 1..Len(table) |-> table[k].date]

\* prices.loc[date, ticker]
Loc(table, date, ticker) ==
    LET k == CHOOSE j \in 1..Len(table) : table[j].date = date
    IN  table[k].px[ticker]

\* futures_multipliers.get(ticker, 1.0)
Multiplier(multipliers, ticker) ==
    IF ticker \in DOMAIN multipliers THEN multipliers[ticker] ELSE 1

RECURSIVE Tagged(_, _, _)
\* the entries (tag, trade) of a log that carry the date, in log order
Tagged(log, tag, date) ==
    IF log = <<>> THEN <<>>
    ELSE LET rest == Tagged(Tail(log), tag, date)
         IN  IF Head(log).date = date
             THEN <<[trade_type |-> tag, tr |-> Head(log)]>> \o rest
             ELSE rest

\* trades_by_date: per date the client trades in log order, then the hedge
\* trades in log order (a defaultdict: other dates give the empty list)
GroupByDate(completed, hedges) ==
    [d \in AllDates |-> Tagged(completed, "client", d)
                        \o Tagged(hedges, "hedge", d)]

\* vol if action == "buy" else -vol
SignedVol(action, vol) == IF action = "buy" THEN vol ELSE -vol

\* ApplyClientTrade with the spread taken as price - mid
ApplyClientTrade_SpreadSign(st, tr, fs) ==
    LET signed_vol == SignedVol(tr.mm_action, tr.trade_volume)
        cost == transaction_cost(tr.trade_volume, tr.trade_price,
                                 fs.fee_rate_client, fs.fee_per_unit_client)
        notional == signed_vol * tr.trade_price
    IN  [st EXCEPT
          !.sp = @ + (tr.trade_price - tr.ref_price) * signed_vol,
          !.cc = @ + cost,
          !.cash = (@ - notional) - cost,
          !.inventory_main[tr.ticker] = @ + signed_vol]

\* ApplyClientTrade with the inventory assigned instead of accumulated
ApplyClientTrade_SetInventory(st, tr, fs) ==
    LET signed_vol == SignedVol(tr.mm_action, tr.trade_volume)
        cost == transaction_cost(tr.trade_volume, tr.trade_price,
                                 fs.fee_rate_client, fs.fee_per_unit_client)
        notional == signed_vol * tr.trade_price
    IN  [st EXCEPT
          !.sp = @ + (tr.ref_price - tr.trade_price) * signed_vol,
          !.cc = @ + cost,
          !.cash = (@ - notional) - cost,
          !.inventory_main[tr.ticker] = signed_vol]

\* compute_pnl_with_attribution, client branch of the trade loop (92-116);
\* st carries cash, the two inventories and the day's sp, cc, hc
ApplyClientTrade(st, tr, fs) ==
    LET signed_vol == SignedVol(tr.mm_action, tr.trade_volume)
        cost == transaction_cost(tr.trade_volume, tr.trade_price,
                                 fs.fee_rate_client, fs.fee_per_unit_client)
        notional == signed_vol * tr.trade_price
    IN  [st EXCEPT
          !.sp = @ + (tr.ref_price - tr.trade_price) * signed_vol,
          !.cc = @ + cost,
          !.cash = (@ - notional) - cost,
          !.inventory_main[tr.ticker] = @ + signed_vol]

\* ApplyHedgeTrade booking the hedge volume into the client inventory
ApplyHedgeTrade_IntoMain(st, tr, fs) ==
    LET signed_vol == SignedVol(tr.action, tr.trade_volume)
        cost == transaction_cost(tr.trade_volume, tr.trade_price,
                                 fs.fee_rate_hedge, fs.fee_per_unit_hedge)
        notional == signed_vol * tr.trade_price
    IN  [st EXCEPT
          !.hc = @ + cost,
          !.cash = (@ - notional) - cost,
          !.inventory_main[tr.ticker] = @ + signed_vol]

\* compute_pnl_with_attribution, hedge branch of the trade loop (118-136)
ApplyHedgeTrade(st, tr, fs) ==
    LET signed_vol == SignedVol(tr.action, tr.trade_volume)
        cost == transaction_cost(tr.trade_volume, tr.trade_price,
                                 fs.fee_rate_hedge, fs.fee_per_unit_hedge)
        notional == signed_vol * tr.trade_price
    IN  [st EXCEPT
          !.hc = @ + cost,
          !.cash = (@ - notional) - cost,
          !.inventory_hedge[tr.ticker] = @ + signed_vol]

RECURSIVE ApplyTrades(_, _, _)
\* the loop over trades_by_date[current_date] (91-136)
ApplyTrades(st, entries, fs) ==
    IF entries = <<>> THEN st
    ELSE LET e == Head(entries)
             st1 == IF e.trade_type = "client"
                    THEN ApplyClientTrade(st, e.tr, fs)
                    ELSE ApplyHedgeTrade(st, e.tr, fs)
         IN  ApplyTrades(st1, Tail(entries), fs)

\* price-move PnL of the client book between two dates (71-74); the
\* inventories are total maps, 0 where the defaultdict has no key
InventoryMove(table, inventory, current_date, prev_date) ==
    SumOver(Tickers \cap PriceColumns,
            [t \in Tickers |->
               IF t \in PriceColumns
               THEN inventory[t] * (Loc(table, current_date, t)
                                    - Loc(table, prev_date, t))
               ELSE 0])

\* price-move PnL of the hedge book between two dates (77-81)
HedgeMove(table, inventory, multipliers, current_date, prev_date) ==
    SumOver(Tickers \cap PriceColumns,
            [t \in Tickers |->
               IF t \in PriceColumns
               THEN inventory[t] * Multiplier(multipliers, t)
                    * (Loc(table, current_date, t) - Loc(table, prev_date, t))
               ELSE 0])

\* PortVal without the column test: an instrument the table does not list
\* is valued at the price of the column "X"
PortVal_PricesUnlisted(table, inventory_main, inventory_hedge, multipliers, date) ==
    SumOver(Tickers,
            [t \in Tickers |-> inventory_main[t] * Loc(table, date, "X")])
    + SumOver(Tickers,
            [t \in Tickers |->
               inventory_hedge[t] * Multiplier(multipliers, t)
               * Loc(table, date, "X")])

\* PortVal with the hedge book valued without its multiplier
PortVal_NoMultiplier(table, inventory_main, inventory_hedge, multipliers, date) ==
    SumOver(Tickers \cap PriceColumns,
            [t \in Tickers |->
               IF t \in PriceColumns
               THEN (inventory_main[t] + inventory_hedge[t])
                    * Loc(table, date, t)
               ELSE 0])

\* mark-to-market value of both books at a date (143-150)
PortVal(table, inventory_main, inventory_hedge, multipliers, date) ==
    SumOver(Tickers \cap PriceColumns,
            [t \in Tickers |->
               IF t \in PriceColumns
               THEN inventory_main[t] * Loc(table, date, t)
               ELSE 0])
    + SumOver(Tickers \cap PriceColumns,
            [t \in Tickers |->
               IF t \in PriceColumns
               THEN inventory_hedge[t] * Multiplier(multipliers, t)
                    * Loc(table, date, t)
               ELSE 0])

\* compute_pnl_with_attribution, lines 39-63: sorted table, grouped trades,
\* empty books, zero series
AttSetup(table, completed, hedges) ==
    LET sorted == sort_index(table)
        dates == Index(sorted)
        zero == [d \in {dates[k] : k \in 1..Len(dates)} |-> 0]
    IN  [prices |-> sorted, dates |-> dates,
         trades_by_date |-> GroupByDate(completed, hedges),
         inventory_main |-> [t \in Tickers |-> 0],
         inventory_hedge |-> [t \in Tickers |-> 0],
         cash |-> 0,
         spread_pnl |-> zero, inventory_pnl |-> zero, hedge_pnl |-> zero,
         client_cost |-> zero, hedge_cost |-> zero, equity |-> zero,
         prev_date |-> NoDate, k |-> 1]

\* AttDate with the price-move step run after the trade loop, on the
\* inventories that already hold the trades of the current date
AttDate_MoveAfterTrades(a, fs, multipliers) ==
    LET current_date == a.dates[a.k]
        moved == a.prev_date # NoDate
        st == ApplyTrades([cash |-> a.cash,
                           inventory_main |-> a.inventory_main,
                           inventory_hedge |-> a.inventory_hedge,
                           sp |-> 0, cc |-> 0, hc |-> 0],
                          a.trades_by_date[current_date], fs)
        inv_p == IF moved
                 THEN InventoryMove(a.prices, st.inventory_main,
                                    current_date, a.prev_date)
                 ELSE a.inventory_pnl[current_date]
        hed_p == IF moved
                 THEN HedgeMove(a.prices, st.inventory_hedge, multipliers,
                                current_date, a.prev_date)
                 ELSE a.hedge_pnl[current_date]
        port_val == PortVal(a.prices, st.inventory_main, st.inventory_hedge,
                            multipliers, current_date)
    IN  [a EXCEPT
          !.inventory_pnl[current_date] = inv_p,
          !.hedge_pnl[current_date] = hed_p,
          !.cash = st.cash,
          !.inventory_main = st.inventory_main,
          !.inventory_hedge = st.inventory_hedge,
          !.spread_pnl[current_date] = st.sp,
          !.client_cost[current_date] = st.cc,
          !.hedge_cost[current_date] = st.hc,
          !.equity[current_date] = st.cash + port_val,
          !.prev_date = current_date,
          !.k = @ + 1]

\* AttDate with sp set up once before the loop: a date starts from the
\* spread of the date before
AttDate_CarrySpread(a, fs, multipliers) ==
    LET current_date == a.dates[a.k]
        moved == a.prev_date # NoDate
        inv_p == IF moved
                 THEN InventoryMove(a.prices, a.inventory_main,
                                    current_date, a.prev_date)
                 ELSE a.inventory_pnl[current_date]
        hed_p == IF moved
                 THEN HedgeMove(a.prices, a.inventory_hedge, multipliers,
                                current_date, a.prev_date)
                 ELSE a.hedge_pnl[current_date]
        st == ApplyTrades([cash |-> a.cash,
                           inventory_main |-> a.inventory_main,
                           inventory_hedge |-> a.inventory_hedge,
                           sp |-> IF moved THEN a.spread_pnl[a.prev_date]
                                  ELSE 0,
                           cc |-> 0, hc |-> 0],
                          a.trades_by_date[current_date], fs)
        port_val == PortVal(a.prices, st.inventory_main, st.inventory_hedge,
                            multipliers, current_date)
    IN  [a EXCEPT
          !.inventory_pnl[current_date] = inv_p,
          !.hedge_pnl[current_date] = hed_p,
          !.cash = st.cash,
          !.inventory_main = st.inventory_main,
          !.inventory_hedge = st.inventory_hedge,
          !.spread_pnl[current_date] = st.sp,
          !.client_cost[current_date] = st.cc,
          !.hedge_cost[current_date] = st.hc,
          !.equity[current_date] = st.cash + port_val,
          !.prev_date = current_date,
          !.k = @ + 1]

\* compute_pnl_with_attribution, one iteration of the loop over dates
\* (65-153) for current_date = dates[k]
AttDate(a, fs, multipliers) ==
    LET current_date == a.dates[a.k]
        moved == a.prev_date # NoDate
        inv_p == IF moved
                 THEN InventoryMove(a.prices, a.inventory_main,
                                    current_date, a.prev_date)
                 ELSE a.inventory_pnl[current_date]
        hed_p == IF moved
                 THEN HedgeMove(a.prices, a.inventory_hedge, multipliers,
                                current_date, a.prev_date)
                 ELSE a.hedge_pnl[current_date]
        st == ApplyTrades([cash |-> a.cash,
                           inventory_main |-> a.inventory_main,
                           inventory_hedge |-> a.inventory_hedge,
                           sp |-> 0, cc |-> 0, hc |-> 0],
                          a.trades_by_date[current_date], fs)
        port_val == PortVal(a.prices, st.inventory_main, st.inventory_hedge,
                            multipliers, current_date)
    IN  [a EXCEPT
          !.inventory_pnl[current_date] = inv_p,
          !.hedge_pnl[current_date] = hed_p,
          !.cash = st.cash,
          !.inventory_main = st.inventory_main,
          !.inventory_hedge = st.inventory_hedge,
          !.spread_pnl[current_date] = st.sp,
          !.client_cost[current_date] = st.cc,
          !.hedge_cost[current_date] = st.hc,
          !.equity[current_date] = st.cash + port_val,
          !.prev_date = current_date,
          !.k = @ + 1]

RECURSIVE CumSum(_, _, _)
\* Series.cumsum() at position k of the index
CumSum(series, dates, k) ==
    IF k = 0 THEN 0 ELSE CumSum(series, dates, k - 1) + series[dates[k]]

\* total_cost column (163)
TotalCost(a, d) == a.client_cost[d] + a.hedge_cost[d]

\* TotalPnl with the costs added instead of subtracted
TotalPnl_PlusCost(a, d) ==
    ((a.spread_pnl[d] + a.inventory_pnl[d]) + a.hedge_pnl[d]) + TotalCost(a, d)

\* total_pnl column (164-169)
TotalPnl(a, d) ==
    ((a.spread_pnl[d] + a.inventory_pnl[d]) + a.hedge_pnl[d]) - TotalCost(a, d)

\* compute_pnl_with_attribution, lines 155-178: the returned DataFrame
AttPack(a) ==
    LET n == Len(a.dates)
        total_cost == [d \in DOMAIN a.equity |-> TotalCost(a, d)]
        total_pnl == [d \in DOMAIN a.equity |-> TotalPnl(a, d)]
    IN  [index |-> a.dates,
         row |-> [d \in DOMAIN a.equity |->
            LET k == CHOOSE j \in 1..n : a.dates[j] = d
            IN  [spread_pnl |-> a.spread_pnl[d],
                 inventory_pnl |-> a.inventory_pnl[d],
                 hedge_pnl |-> a.hedge_pnl[d],
                 client_cost |-> a.client_cost[d],
                 hedge_cost |-> a.hedge_cost[d],
                 total_cost |-> total_cost[d],
                 total_pnl |-> total_pnl[d],
                 equity |-> a.equity[d],
                 cum_spread_pnl |-> CumSum(a.spread_pnl, a.dates, k),
                 cum_inventory_pnl |-> CumSum(a.inventory_pnl, a.dates, k),
                 cum_hedge_pnl |-> CumSum(a.hedge_pnl, a.dates, k),
                 cum_total_cost |-> CumSum(total_cost, a.dates, k),
                 cum_total_pnl |-> CumSum(total_pnl, a.dates, k)]]]

RECURSIVE AttRun(_, _, _)
\* the whole loop over dates, from the state a
AttRun(a, fs, multipliers) ==
    IF a.k > Len(a.dates) THEN a
    ELSE AttRun(AttDate(a, fs, multipliers), fs, multipliers)

\* compute_pnl_with_attribution as a function of its arguments
compute_pnl_with_attribution(completed, hedges, table, fs, multipliers) ==
    AttPack(AttRun(AttSetup(table, completed, hedges), fs, multipliers))

\* compute_simple_pnl, lines 199-218
SimpleSetup(table, completed, hedges) ==
    LET sorted == sort_index(table)
        dates == Index(sorted)
    IN  [prices |-> sorted, dates |-> dates,
         trades_by_date |-> GroupByDate(completed, hedges),
         inventory |-> [t \in Tickers |-> 0],
         cash |-> 0,
         equity |-> [d \in {dates[k] : k \in 1..Len(dates)} |-> 0],
         k |-> 1]

\* SimpleApplyTrade charging the client fee schedule on hedge trades too
SimpleApplyTrade_ClientFees(st, e, fs) ==
    LET client == e.trade_type = "client"
        signed_vol == IF client
                      THEN SignedVol(e.tr.mm_action, e.tr.trade_volume)
                      ELSE SignedVol(e.tr.action, e.tr.trade_volume)
        cost == transaction_cost(e.tr.trade_volume, e.tr.trade_price,
                                 fs.fee_rate_client, fs.fee_per_unit_client)
        notional == signed_vol * e.tr.trade_price
    IN  [st EXCEPT
          !.cash = (@ - notional) - cost,
          !.inventory[e.tr.ticker] = @ + signed_vol]

\* compute_simple_pnl, one trade of the loop (223-255)
SimpleApplyTrade(st, e, fs) ==
    LET client == e.trade_type = "client"
        signed_vol == IF client
                      THEN SignedVol(e.tr.mm_action, e.tr.trade_volume)
                      ELSE SignedVol(e.tr.action, e.tr.trade_volume)
        cost == IF client
                THEN transaction_cost(e.tr.trade_volume, e.tr.trade_price,
                                      fs.fee_rate_client,
                                      fs.fee_per_unit_client)
                ELSE transaction_cost(e.tr.trade_volume, e.tr.trade_price,
                                      fs.fee_rate_hedge,
                                      fs.fee_per_unit_hedge)
        notional == signed_vol * e.tr.trade_price
    IN  [st EXCEPT
          !.cash = (@ - notional) - cost,
          !.inventory[e.tr.ticker] = @ + signed_vol]

RECURSIVE SimpleApplyTrades(_, _, _)
\* the loop over trades_by_date[current_date] (222-255)
SimpleApplyTrades(st, entries, fs) ==
    IF entries = <<>> THEN st
    ELSE SimpleApplyTrades(SimpleApplyTrade(st, Head(entries), fs),
                           Tail(entries), fs)

\* compute_simple_pnl, one iteration of the loop over dates (220-263)
SimpleDate(s, fs) ==
    LET current_date == s.dates[s.k]
        st == SimpleApplyTrades([cash |-> s.cash, inventory |-> s.inventory],
                                s.trades_by_date[current_date], fs)
        port_val == SumOver(Tickers \cap PriceColumns,
                       [t \in Tickers |->
                          IF t \in PriceColumns
                          THEN st.inventory[t]
                               * Loc(s.prices, current_date, t)
                          ELSE 0])
    IN  [s EXCEPT
          !.cash = st.cash,
          !.inventory = st.inventory,
          !.equity[current_date] = st.cash + port_val,
          !.k = @ + 1]

RECURSIVE SimpleRun(_, _)
\* the whole loop over dates of compute_simple_pnl, from the state s
SimpleRun(s, fs) ==
    IF s.k > Len(s.dates) THEN s ELSE SimpleRun(SimpleDate(s, fs), fs)

\* compute_simple_pnl as a function of its arguments: the equity series
compute_simple_pnl(completed, hedges, table, fs) ==
    SimpleRun(SimpleSetup(table, completed, hedges), fs).equity

\* -------------------------------------------------- engine specification
\* the ledger a fresh MarketMaker holds after add_trade was called with each
\* client record and update_ETF_position with each hedge record
RECURSIVE Ingest(_, _)
Ingest(positions, calls) ==
    IF calls = <<>> THEN positions
    ELSE LET c == Head(calls)
             tr == c[2]
             action == IF c[1] = "client" THEN tr.mm_action ELSE tr.action
         IN  Ingest(UpdatePosition(positions, tr.ticker, action,
                                   tr.trade_volume).positions,
                    Tail(calls))

Calls(completed, hedges) ==
    [k \in 1..Len(completed) |-> <<"client", completed[k]>>]
    \o [k \in 1..Len(hedges) |-> <<"hedge", hedges[k]>>]

InitPnl ==
    /\ quoted_trades = <<>>
    /\ completed_trades \in SeqUpTo(PnlClientTrades, MaxClientLog)
    /\ ETF_positions \in SeqUpTo(PnlHedgeTrades, MaxHedgeLog)
    /\ ingested = Calls(completed_trades, ETF_positions)
    /\ current_positions = Ingest(EmptyMap, ingested)
    /\ last_call = NoCall
    /\ prices \in PriceTables
    /\ fees \in FeeSchedules
    /\ futures_multipliers \in MultiplierTables
    /\ pc = "start"
    /\ att = EmptyMap
    /\ pnl_df = EmptyMap
    /\ simple = EmptyMap
    /\ calc = EmptyMap

\* compute_pnl_with_attribution is called: lines 39-63
PnlSetup ==
    /\ pc = "start"
    /\ att' = AttSetup(prices, completed_trades, ETF_positions)
    /\ pc' = "pnl_loop"
    /\ UNCHANGED <<pnl_df, simple>>

\* one iteration of `for current_date in dates`
PnlDate ==
    /\ pc = "pnl_loop"
    /\ att.k <= Len(att.dates)
    /\ att' = AttDate(att, fees, futures_multipliers)
    /\ UNCHANGED <<pc, pnl_df, simple>>

\* the loop is over: lines 155-178
PnlReturn ==
    /\ pc = "pnl_loop"
    /\ att.k > Len(att.dates)
    /\ pnl_df' = AttPack(att)
    /\ pc' = "pnl_done"
    /\ UNCHANGED <<att, simple>>

\* compute_simple_pnl is called on the same ledger, table and fees
SimpleStart ==
    /\ pc = "pnl_done"
    /\ simple' = SimpleSetup(prices, completed_trades, ETF_positions)
    /\ pc' = "simple_loop"
    /\ UNCHANGED <<att, pnl_df>>

\* one iteration of its loop over dates
SimpleStep ==
    /\ pc = "simple_loop"
    /\ simple.k <= Len(simple.dates)
    /\ simple' = SimpleDate(simple, fees)
    /\ UNCHANGED <<pc, att, pnl_df>>

\* return equity
SimpleReturn ==
    /\ pc = "simple_loop"
    /\ simple.k > Len(simple.dates)
    /\ pc' = "done"
    /\ UNCHANGED <<att, pnl_df, simple>>

NextPnl ==
    \/ PnlSetup /\ UNCHANGED <<ledgerVars, inputVars, calc>>
    \/ PnlDate /\ UNCHANGED <<ledgerVars, inputVars, calc>>
    \/ PnlReturn /\ UNCHANGED <<ledgerVars, inputVars, calc>>
    \/ SimpleStart /\ UNCHANGED <<ledgerVars, inputVars, calc>>
    \/ SimpleStep /\ UNCHANGED <<ledgerVars, inputVars, calc>>
    \/ SimpleReturn /\ UNCHANGED <<ledgerVars, inputVars, calc>>

SpecPnl == InitPnl /\ [][NextPnl]_vars

\* ====================================================== stateless helpers
\* Each action below is one call: it draws the arguments and records them
\* with the returned value in calc.

\* --------------------------------------------------------- transaction_cost
CostVolumes == {1, 5, 10}
CostPrices == {99, 100}
CostFeeRates == {0, 1, 2}
CostFeesPerUnit == {0, 3}

\* the cost of two trades at one price and fee schedule, and of one trade of
\* their total volume
CallTransactionCost ==
    \E v1 \in CostVolumes, v2 \in CostVolumes, p \in CostPrices,
       r \in CostFeeRates, u \in CostFeesPerUnit :
       calc' = [fn |-> "transaction_cost",
                volume1 |-> v1, volume2 |-> v2, price |-> p,
                fee_rate |-> r, fee_per_unit |-> u,
                cost1 |-> transaction_cost(v1, p, r, u),
                cost2 |-> transaction_cost(v2, p, r, u),
                merged |-> transaction_cost(v1 + v2, p, r, u)]

\* ------------------------------------------------------------------ quotes
\* Fixed-point arithmetic: base_spread and max_skew are in hundredths,
\* tanh values in ten-thousandths, raw_skew in quarters, and a returned price
\* is a whole number of 1 / QuoteScale.
QuoteScale == 2 * 100 * 10000

\* tanh(q / 4) for q = 1 .. 21, rounded to four decimals; from q = 22 on
\* the rounded value is 1.0000
TanhTable ==
    <<2449, 4621, 6351, 7616, 8483, 9051, 9414, 9640, 9780, 9866, 9919,
      9951, 9970, 9982, 9989, 9993, 9996, 9998, 9999, 9999, 9999>>

\* tanh on float64 rounded to four decimals (argument in quarters, value in
\* ten-thousandths): odd and non-decreasing
TanhQuarters(q) ==
    LET a == Abs(q)
        t == IF a = 0 THEN 0
             ELSE IF a <= Len(TanhTable) THEN TanhTable[a]
             ELSE 10000
    IN  IF q < 0 THEN 0 - t ELSE t

\* whether tanh returns exactly 1.0 (-1.0) in float64: 1 - tanh(x) is about
\* 2 exp(-2x) and the doubles under 1 are 2^-53 apart, so the result is 1.0
\* once 2 exp(-2x) is under 2^-54, from x of about 19.06.  Up to 18 the
\* distance is more than four spacings and no library returns 1.0; from 20
\* it is under a tenth of a spacing and every library does; between the two
\* the last bit depends on the library, and both outcomes are kept.
TanhIsOne(q) ==
    IF Abs(q) <= 4 * 18 THEN {FALSE}
    ELSE IF Abs(q) >= 4 * 20 THEN {TRUE}
    ELSE BOOLEAN

\* the value np.tanh(q / 4) returns: its rounded value, and whether it is
\* exactly 1.0 in absolute value (is_one, one of TanhIsOne(q))
tanh(q, is_one) == [value |-> TanhQuarters(q), is_one |-> is_one]

\* skew = current_price * max_skew * np.tanh(raw_skew) (quotes.py:39), in
\* 1 / QuoteScale, and whether it is exactly current_price * max_skew in
\* absolute value.  When current_price * max_skew is 0 the product is 0.0
\* (or -0.0) whatever tanh returned, and equals it.  Otherwise the float64
\* product of a non-zero number and a factor below 1 is below the number in
\* absolute value, so the skew is at the bound when tanh returned 1.0 and
\* only then.
Skew(current_price, max_skew, t) ==
    [value |-> current_price * max_skew * t.value * 2,
     at_bound |-> t.is_one \/ current_price * max_skew = 0]

\* sensitivity * inventory / inventory_ideal_size in quarters, where the
\* quotient is a whole number of quarters
RawSkewQuarters(inventory, inventory_ideal_size, sensitivity) ==
    LET n == 4 * sensitivity * inventory
    IN  CHOOSE q \in {n \div inventory_ideal_size} :
           q * inventory_ideal_size = n

\* fixed_quote (quotes.py:4-18)
fixed_quote(current_price, base_spread) ==
    LET spread == current_price * base_spread * (QuoteScale \div 100)
    IN  [bid_price |-> current_price * QuoteScale - spread \div 2,
         offer_price |-> current_price * QuoteScale + spread \div 2]

\* skewed_quote (quotes.py:22-44); is_one is the outcome of np.tanh on the
\* raw skew, one of TanhIsOne.  The record carries the returned pair and
\* the local skew of line 39.
skewed_quote(current_price, base_spread, inventory, inventory_ideal_size, sensitivity, max_skew, is_one) ==
    LET raw_skew == RawSkewQuarters(inventory, inventory_ideal_size, sensitivity)
        skew == Skew(current_price, max_skew, tanh(raw_skew, is_one))
        spread == current_price * base_spread * (QuoteScale \div 100)
    IN  [skew |-> skew,
         bid_price |-> current_price * QuoteScale + skew.value - spread \div 2,
         offer_price |-> current_price * QuoteScale + skew.value + spread \div 2]

QuotePrices == {50, 100}
QuoteSpreads == {0, 2}
QuoteMaxSkews == {1, 2}
QuoteSensitivities == {1, 2}
QuoteIdealSizes == {1000}
QuoteInventories ==
    {-40000, -19000, -17000, -16500, -2000, -1250, -1000, -500, 0,
     250, 500, 1000, 1500, 2000, 16500, 17000, 19000, 40000}

CallFixedQuote ==
    \E p \in QuotePrices, b \in QuoteSpreads :
       calc' = [fn |-> "fixed_quote", current_price |-> p, base_spread |-> b,
                quote |-> fixed_quote(p, b)]

CallSkewedQuote ==
    \E p \in QuotePrices, b \in QuoteSpreads, i \in QuoteInventories,
       n \in QuoteIdealSizes, s \in QuoteSensitivities,
       m \in QuoteMaxSkews :
       \E o \in TanhIsOne(RawSkewQuarters(i, n, s)) :
          calc' = [fn |-> "skewed_quote", current_price |-> p,
                   base_spread |-> b, inventory |-> i,
                   inventory_ideal_size |-> n, sensitivity |-> s,
                   max_skew |-> m,
                   quote |-> skewed_quote(p, b, i, n, s, m, o)]

\* -------------------------------------------------------- Exchange.execute
\* ExchangeTrade (exchange.py:6-15)
ExchangeTrades ==
    [ticker : Tickers, trade_volume : {5, 10}, ref_price : {98},
     action : Actions, date : TradeDates]

\* the lookup prices.loc[date, ticker] succeeds
HasPrice(table, date, ticker) ==
    /\ \E k \in 1..Len(table) : table[k].date = date
    /\ ticker \in PriceColumns

\* Exchange.execute with a miss filled at price 0
execute_MissIsZero(table, trade) ==
    [ticker |-> trade.ticker,
     trade_volume |-> trade.trade_volume,
     trade_price |-> IF HasPrice(table, trade.date, trade.ticker)
                     THEN Loc(table, trade.date, trade.ticker)
                     ELSE 0,
     action |-> trade.action,
     date |-> trade.date]

\* Exchange.execute (exchange.py:42-56); table is self.prices
execute(table, trade) ==
    [ticker |-> trade.ticker,
     trade_volume |-> trade.trade_volume,
     trade_price |-> IF HasPrice(table, trade.date, trade.ticker)
                     THEN Loc(table, trade.date, trade.ticker)
                     ELSE trade.ref_price,
     action |-> trade.action,
     date |-> trade.date]

CallExecute ==
    \E table \in PriceTables, trade \in ExchangeTrades :
       calc' = [fn |-> "execute", prices |-> table, trade |-> trade,
                report |-> execute(table, trade)]

\* an empty ledger, no engine running, no helper called yet
InitPure ==
    /\ quoted_trades = <<>>
    /\ completed_trades = <<>>
    /\ current_positions = EmptyMap
    /\ ETF_positions = <<>>
    /\ last_call = NoCall
    /\ ingested = <<>>
    /\ EngineIdle
    /\ calc = EmptyMap

NextPure ==
    \/ CallTransactionCost /\ UNCHANGED <<ledgerVars, inputVars, engineVars>>
    \/ CallFixedQuote /\ UNCHANGED <<ledgerVars, inputVars, engineVars>>
    \/ CallSkewedQuote /\ UNCHANGED <<ledgerVars, inputVars, engineVars>>
    \/ CallExecute /\ UNCHANGED <<ledgerVars, inputVars, engineVars>>

SpecPure == InitPure /\ [][NextPure]_vars

\* ================================================================= claims
\* the attribution table has been returned
PnlDone == pc \in {"pnl_done", "simple_loop", "done"}

\* the sequence s read in the order p, a permutation of its positions
Permuted(s, p) == [k \in 1..Len(s) |-> s[p[k]]]

\* signed volume a ledger call contributes to instrument i: buy = +volume,
\* sell = -volume
CallSigned(c, i) ==
    LET tr == c[2]
        action == IF c[1] = "client" THEN tr.mm_action ELSE tr.action
    IN  IF tr.ticker # i THEN 0
        ELSE IF action = "buy" THEN tr.trade_volume
        ELSE IF action = "sell" THEN 0 - tr.trade_volume
        ELSE 0

RECURSIVE SignedSum(_, _)
SignedSum(calls, i) ==
    IF calls = <<>> THEN 0
    ELSE CallSigned(Head(calls), i) + SignedSum(Tail(calls), i)

CallAction(c) == IF c[1] = "client" THEN c[2].mm_action ELSE c[2].action

\* C1 (as stated): at every date of the returned table, equity equals the
\* equity of the previous date (0 before the first date) plus total_pnl of
\* the date, i.e. equity is the running sum of total_pnl.
C1_EquityIsCumulativePnl ==
    PnlDone =>
      \A k \in 1..Len(pnl_df.index) :
         LET d == pnl_df.index[k]
             before == IF k = 1 THEN 0
                       ELSE pnl_df.row[pnl_df.index[k - 1]].equity
         IN  /\ pnl_df.row[d].equity = before + pnl_df.row[d].total_pnl
             /\ pnl_df.row[d].equity = pnl_df.row[d].cum_total_pnl

\* C2: every row of the returned table has
\* total_pnl = spread_pnl + inventory_pnl + hedge_pnl - (client_cost +
\* hedge_cost) and total_cost = client_cost + hedge_cost.
C2_TotalPnlDecomposition ==
    PnlDone =>
      \A d \in DOMAIN pnl_df.row :
         LET r == pnl_df.row[d]
         IN  /\ r.total_pnl = r.spread_pnl + r.inventory_pnl + r.hedge_pnl
                              - (r.client_cost + r.hedge_cost)
             /\ r.total_cost = r.client_cost + r.hedge_cost

C2_Witness ==
    /\ PnlDone
    /\ \E d \in DOMAIN pnl_df.row :
          /\ pnl_df.row[d].spread_pnl # 0
          /\ pnl_df.row[d].client_cost # 0
          /\ pnl_df.row[d].inventory_pnl # 0
          /\ pnl_df.row[d].hedge_pnl # 0
    /\ \E d \in DOMAIN pnl_df.row : pnl_df.row[d].hedge_cost # 0

\* C3: cash starts at 0 and both inventories start empty; after the trades
\* of a date d have been applied, equity[d] = cash + the sum over the priced
\* instruments of client_inventory * price[d] + the sum over the priced
\* instruments of hedge_inventory * multiplier * price[d], the multiplier
\* being 1 for instruments absent from the multiplier table; the returned
\* equity column is that series.
C3_EquityIsMarkToMarket ==
    /\ (pc = "pnl_loop" /\ att.prev_date = NoDate) =>
          /\ att.cash = 0
          /\ \A t \in Tickers :
                att.inventory_main[t] = 0 /\ att.inventory_hedge[t] = 0
    /\ (pc \in {"pnl_loop", "pnl_done"} /\ att.prev_date # NoDate) =>
          LET d == att.prev_date
              price(t) == Loc(sort_index(prices), d, t)
              mult(t) == IF t \in DOMAIN futures_multipliers
                         THEN futures_multipliers[t] ELSE 1
          IN  att.equity[d] =
                 att.cash
                 + SumOver(PriceColumns,
                      [t \in PriceColumns |-> att.inventory_main[t] * price(t)])
                 + SumOver(PriceColumns,
                      [t \in PriceColumns |->
                          att.inventory_hedge[t] * mult(t) * price(t)])
    /\ pc = "pnl_done" =>
          \A d \in DOMAIN pnl_df.row : pnl_df.row[d].equity = att.equity[d]

C3_Witness ==
    /\ pc = "pnl_loop"
    /\ att.prev_date # NoDate
    /\ att.cash # 0
    /\ att.inventory_main["X"] # 0
    /\ att.inventory_main["Z"] # 0
    /\ att.inventory_hedge["X"] # 0
    /\ "X" \in DOMAIN futures_multipliers

\* C4: with the multiplier table left at its default, the series returned
\* by compute_simple_pnl equals the equity column of the attribution table
\* at every date.
C4_SimpleEqualsFull ==
    (pc = "done" /\ futures_multipliers = EmptyMap) =>
       /\ DOMAIN simple.equity = DOMAIN pnl_df.row
       /\ \A d \in DOMAIN pnl_df.row :
             simple.equity[d] = pnl_df.row[d].equity

C4_Witness ==
    /\ pc = "done"
    /\ futures_multipliers = EmptyMap
    /\ fees.fee_rate_hedge # 0
    /\ \E i \in 1..Len(completed_trades), j \in 1..Len(ETF_positions) :
          /\ completed_trades[i].ticker = ETF_positions[j].ticker
          /\ completed_trades[i].date = ETF_positions[j].date
          /\ completed_trades[i].date \in TableDates
    /\ \E d \in DOMAIN simple.equity : simple.equity[d] # 0

\* C5: when every call of add_trade and update_ETF_position made so far had
\* the action buy or sell, the position of every instrument is the signed
\* sum of the ingested volumes (buy +, sell -), the map holds exactly the
\* ingested instruments, and ingesting the same calls in any other order
\* gives the same map.
C5_PositionIsSignedSum ==
    (\A k \in 1..Len(ingested) : CallAction(ingested[k]) \in ValidActions) =>
       /\ DOMAIN current_positions =
             {ingested[k][2].ticker : k \in 1..Len(ingested)}
       /\ \A i \in DOMAIN current_positions :
             current_positions[i] = SignedSum(ingested, i)
       /\ \A p \in Permutations(1..Len(ingested)) :
             Ingest(EmptyMap, Permuted(ingested, p)) = current_positions

C5_Witness ==
    /\ Len(ingested) = MaxIngest
    /\ \A k \in 1..Len(ingested) : CallAction(ingested[k]) \in ValidActions
    /\ ingested[1][1] = "client"
    /\ ingested[2][1] = "hedge"
    /\ ingested[1][2].ticker = ingested[2][2].ticker
    /\ CallAction(ingested[1]) = "sell"
    /\ CallAction(ingested[2]) = "buy"
    /\ ingested[1][2].trade_volume # ingested[2][2].trade_volume

\* C6: a call of add_trade or update_ETF_position whose action is neither
\* buy nor sell ends in an error and leaves the position map (instruments
\* and volumes) as it was.
C6_InvalidActionRejected ==
    [][(/\ ingested' # ingested
        /\ last_call'.action \notin ValidActions)
       => (/\ last_call'.status = "error"
           /\ current_positions' = current_positions)]_vars

C6_Witness ==
    /\ last_call.status = "error"
    /\ last_call.op = "add_trade"
    /\ last_call.ticker \in DOMAIN current_positions
    /\ \E t \in Tickers : t \notin DOMAIN current_positions

\* C7 (as stated): once the trade loop of the attribution engine has run
\* for a date that carries a client or hedge trade whose action is neither
\* buy nor sell, the run has failed.
C7_UnknownActionFails ==
    (/\ pc \in {"pnl_loop", "pnl_done", "simple_loop", "done"}
     /\ \E k \in 1..Len(completed_trades) :
           /\ completed_trades[k].mm_action \notin ValidActions
           /\ att.prev_date # NoDate
           /\ completed_trades[k].date <= att.prev_date)
    => pc = "failed"

\* C8: the scenario - instrument X, prices 100 then 105, zero fees, no
\* multiplier table, a client buy of 10 at 99 (ref 100) and a hedge sell of
\* 10 at 100 on the first date - gives on the first date spread_pnl 10,
\* inventory_pnl 0, hedge_pnl 0, equity 10 and on the second date
\* spread_pnl 0, inventory_pnl 50, hedge_pnl -50, total_pnl 0, equity 10.
Scenario ==
    /\ completed_trades =
          <<[ticker |-> "X", trade_volume |-> 10, trade_price |-> 99,
             mm_action |-> "buy", ref_price |-> 100, date |-> 1]>>
    /\ ETF_positions =
          <<[ticker |-> "X", trade_volume |-> 10, trade_price |-> 100,
             action |-> "sell", date |-> 1]>>
    /\ sort_index(prices) = <<[date |-> 1, px |-> [c \in {"X"} |-> 100]],
                              [date |-> 2, px |-> [c \in {"X"} |-> 105]]>>
    /\ \A f \in DOMAIN fees : fees[f] = 0
    /\ futures_multipliers = EmptyMap

C8_Scenario ==
    (Scenario /\ PnlDone) =>
       /\ pnl_df.row[1].spread_pnl = 10
       /\ pnl_df.row[1].inventory_pnl = 0
       /\ pnl_df.row[1].hedge_pnl = 0
       /\ pnl_df.row[1].equity = 10
       /\ pnl_df.row[2].spread_pnl = 0
       /\ pnl_df.row[2].inventory_pnl = 50
       /\ pnl_df.row[2].hedge_pnl = 0 - 50
       /\ pnl_df.row[2].total_pnl = 0
       /\ pnl_df.row[2].equity = 10

C8_Witness == Scenario /\ pc = "pnl_done"

RECURSIVE Rebuild(_, _)
\* the position map recomputed from logs: signed sum per instrument over
\* the buy and sell records
Rebuild(positions, calls) ==
    IF calls = <<>> THEN positions
    ELSE LET c == Head(calls)
             i == c[2].ticker
             rest == Rebuild(positions, Tail(calls))
         IN  IF CallAction(c) \in ValidActions
             THEN [t \in (DOMAIN rest) \cup {i} |->
                     CallSigned(c, t)
                     + (IF t \in DOMAIN rest THEN rest[t] ELSE 0)]
             ELSE rest

\* C9 (as stated): in every state of a MarketMaker the position map equals
\* the map recomputed from the completed-trade log and the hedge log.
C9_PositionsEqualRebuild ==
    pc = "idle" =>
       current_positions =
          Rebuild(EmptyMap, Calls(completed_trades, ETF_positions))

\* C10: the returned attribution table is the same for every order of the
\* completed-trade log and every order of the hedge log.
C10_OrderIndependent ==
    pc = "pnl_done" =>
       \A p \in Permutations(1..Len(completed_trades)),
          q \in Permutations(1..Len(ETF_positions)) :
          compute_pnl_with_attribution(Permuted(completed_trades, p),
                                       Permuted(ETF_positions, q),
                                       prices, fees, futures_multipliers)
          = pnl_df

C10_Witness ==
    /\ pc = "pnl_done"
    /\ Len(completed_trades) = 2
    /\ completed_trades[1] # completed_trades[2]
    /\ completed_trades[1].date = completed_trades[2].date
    /\ completed_trades[1].ticker = completed_trades[2].ticker
    /\ Len(ETF_positions) = 1
    /\ ETF_positions[1].date = completed_trades[1].date
    /\ ETF_positions[1].ticker = completed_trades[1].ticker
    /\ fees.fee_rate_client # 0

\* the ledger holds no client trade and no hedge trade dated d
NoTradeOn(d) ==
    /\ \A k \in 1..Len(completed_trades) : completed_trades[k].date # d
    /\ \A k \in 1..Len(ETF_positions) : ETF_positions[k].date # d

\* price of a priced instrument at a date of the table
PriceAt(d, t) == Loc(sort_index(prices), d, t)

\* multiplier of an instrument: 1 when the table does not list it
MultOf(t) ==
    IF t \in DOMAIN futures_multipliers THEN futures_multipliers[t] ELSE 1

\* the step is one iteration of the loop over dates of the attribution
\* engine
IsDateStep == pc = "pnl_loop" /\ att.k <= Len(att.dates) /\ att' # att

\* C11: an iteration for a date without trades leaves cash and both
\* inventories as they were, writes spread_pnl = client_cost = hedge_cost
\* = 0 for the date, and computes the date's inventory_pnl, hedge_pnl and
\* equity from the carried-forward inventories.
C11_NoTradeDateCarries ==
    [][(IsDateStep /\ NoTradeOn(att.dates[att.k])) =>
         LET d == att.dates[att.k]
             prev == att.prev_date
             delta(t) == PriceAt(d, t) - PriceAt(prev, t)
         IN  /\ att'.cash = att.cash
             /\ att'.inventory_main = att.inventory_main
             /\ att'.inventory_hedge = att.inventory_hedge
             /\ att'.spread_pnl[d] = 0
             /\ att'.client_cost[d] = 0
             /\ att'.hedge_cost[d] = 0
             /\ att'.inventory_pnl[d] =
                   (IF prev = NoDate THEN 0
                    ELSE SumOver(PriceColumns, [t \in PriceColumns |->
                            att.inventory_main[t] * delta(t)]))
             /\ att'.hedge_pnl[d] =
                   (IF prev = NoDate THEN 0
                    ELSE SumOver(PriceColumns, [t \in PriceColumns |->
                            att.inventory_hedge[t] * MultOf(t) * delta(t)]))
             /\ att'.equity[d] =
                   att.cash
                   + SumOver(PriceColumns, [t \in PriceColumns |->
                        att.inventory_main[t] * PriceAt(d, t)])
                   + SumOver(PriceColumns, [t \in PriceColumns |->
                        att.inventory_hedge[t] * MultOf(t) * PriceAt(d, t)])
      ]_vars

C11_Witness ==
    /\ pc = "pnl_loop"
    /\ att.prev_date = 2
    /\ NoTradeOn(2)
    /\ att.inventory_main["X"] # 0
    /\ att.inventory_hedge["X"] # 0
    /\ att.spread_pnl[1] # 0
    /\ att.inventory_pnl[2] # 0
    /\ att.hedge_pnl[2] # 0
    /\ att.equity[2] # att.equity[1]

RECURSIVE Priced(_)
\* the records of a log whose instrument is a column of the price table
Priced(log) ==
    IF log = <<>> THEN <<>>
    ELSE IF Head(log).ticker \in PriceColumns
         THEN <<Head(log)>> \o Priced(Tail(log))
         ELSE Priced(Tail(log))

\* the hedge log with every record moved to the unpriced instrument "Z"
Unlisted(log) == [k \in 1..Len(log) |-> [log[k] EXCEPT !.ticker = "Z"]]

RECURSIVE CashOf(_, _, _, _)
\* cash paid up to date d for the records of a log on unpriced instruments:
\* signed notional plus cost of every such record dated on a table date
\* not after d
CashOf(calls, d, rate, unit) ==
    IF calls = <<>> THEN 0
    ELSE LET tr == Head(calls)[2]
             counted == /\ tr.ticker \notin PriceColumns
                        /\ tr.date \in TableDates
                        /\ tr.date <= d
             flow == SignedVol(CallAction(Head(calls)), tr.trade_volume)
                        * tr.trade_price
                     + transaction_cost(tr.trade_volume, tr.trade_price,
                                        rate, unit)
         IN  (IF counted THEN flow ELSE 0)
             + CashOf(Tail(calls), d, rate, unit)

UnpricedCash(completed, hedges, d) ==
    CashOf(Calls(completed, <<>>), d,
           fees.fee_rate_client, fees.fee_per_unit_client)
    + CashOf(Calls(<<>>, hedges), d,
             fees.fee_rate_hedge, fees.fee_per_unit_hedge)

\* C12: an instrument that is no column of the price table contributes 0
\* to inventory_pnl, to hedge_pnl and to the mark-to-market part of equity,
\* in both engines: the returned inventory_pnl and hedge_pnl are those of
\* the ledger without the trades on unpriced instruments, and equity
\* differs from that ledger's only by the cash those trades paid; with
\* the hedge trades moved to the unpriced instrument, hedge_pnl is 0 and
\* equity is that of the ledger without hedge trades less their cash.
C12_UnpricedContributesZero ==
    pc = "done" =>
       LET base == compute_pnl_with_attribution(
                      Priced(completed_trades), Priced(ETF_positions),
                      prices, fees, futures_multipliers)
           sbase == compute_simple_pnl(
                      Priced(completed_trades), Priced(ETF_positions),
                      prices, fees)
           moved == compute_pnl_with_attribution(
                      completed_trades, Unlisted(ETF_positions),
                      prices, fees, futures_multipliers)
           nohedge == compute_pnl_with_attribution(
                      completed_trades, <<>>,
                      prices, fees, futures_multipliers)
           smoved == compute_simple_pnl(
                      completed_trades, Unlisted(ETF_positions),
                      prices, fees)
       IN  \A d \in DOMAIN pnl_df.row :
              /\ pnl_df.row[d].inventory_pnl = base.row[d].inventory_pnl
              /\ pnl_df.row[d].hedge_pnl = base.row[d].hedge_pnl
              /\ pnl_df.row[d].equity =
                    base.row[d].equity
                    - UnpricedCash(completed_trades, ETF_positions, d)
              /\ simple.equity[d] =
                    sbase[d]
                    - UnpricedCash(completed_trades, ETF_positions, d)
              /\ moved.row[d].hedge_pnl = 0
              /\ moved.row[d].inventory_pnl = pnl_df.row[d].inventory_pnl
              /\ moved.row[d].equity =
                    nohedge.row[d].equity
                    - UnpricedCash(<<>>, Unlisted(ETF_positions), d)
              /\ smoved[d] = moved.row[d].equity

C12_Witness ==
    /\ pc = "done"
    /\ att.inventory_main["Z"] # 0
    /\ att.inventory_main["X"] # 0
    /\ Len(ETF_positions) = 1
    /\ ETF_positions[1].date = 1
    /\ PriceAt(1, "X") # PriceAt(2, "X")
    /\ \E k \in 1..Len(completed_trades) :
          completed_trades[k].ticker = "Z" /\ completed_trades[k].date = 1

\* C13 (as stated): every record held in the quote log, the completed-trade
\* log and the hedge log has a strictly positive volume, a record with a
\* non-positive volume being rejected when it is constructed.
C13_VolumesPositive ==
    pc = "idle" =>
       /\ \A k \in 1..Len(quoted_trades) : quoted_trades[k].trade_volume > 0
       /\ \A k \in 1..Len(completed_trades) :
             completed_trades[k].trade_volume > 0
       /\ \A k \in 1..Len(ETF_positions) : ETF_positions[k].trade_volume > 0

RECURSIVE VolumeUpTo(_, _, _)
\* units of instrument t the engine's sign rule (buy +, otherwise -) gives
\* the records of a log dated on a table date not after d
VolumeUpTo(calls, t, d) ==
    IF calls = <<>> THEN 0
    ELSE LET tr == Head(calls)[2]
             counted == tr.ticker = t /\ tr.date \in TableDates /\ tr.date <= d
         IN  (IF counted
              THEN SignedVol(CallAction(Head(calls)), tr.trade_volume)
              ELSE 0)
             + VolumeUpTo(Tail(calls), t, d)

\* C14: the returned table has exactly one row per date of the price
\* table, in ascending date order, and is the same for every order of the
\* rows of the input table; while the loop runs, the dates are visited in
\* ascending order and the inventories hold the trades of the dates
\* already visited and of no later date.
C14_OneRowPerDateAscending ==
    /\ pc = "pnl_loop" =>
          /\ \A k \in 1..Len(att.dates) - 1 : att.dates[k] < att.dates[k + 1]
          /\ att.prev_date =
                (IF att.k = 1 THEN NoDate ELSE att.dates[att.k - 1])
          /\ \A t \in Tickers :
                /\ att.inventory_main[t] =
                      VolumeUpTo(Calls(completed_trades, <<>>), t,
                                 att.prev_date)
                /\ att.inventory_hedge[t] =
                      VolumeUpTo(Calls(<<>>, ETF_positions), t,
                                 att.prev_date)
    /\ pc = "pnl_done" =>
          /\ Len(pnl_df.index) = Len(prices)
          /\ {pnl_df.index[k] : k \in 1..Len(pnl_df.index)} =
                {prices[k].date : k \in 1..Len(prices)}
          /\ DOMAIN pnl_df.row = {prices[k].date : k \in 1..Len(prices)}
          /\ \A k \in 1..Len(pnl_df.index) - 1 :
                pnl_df.index[k] < pnl_df.index[k + 1]
          /\ \A q \in Permutations(1..Len(prices)) :
                compute_pnl_with_attribution(
                   completed_trades, ETF_positions, Permuted(prices, q),
                   fees, futures_multipliers) = pnl_df

C14_Witness ==
    /\ pc = "pnl_done"
    /\ prices[1].date > prices[2].date
    /\ \E k \in 1..Len(completed_trades) :
          completed_trades[k].date = 1 /\ completed_trades[k].ticker = "X"
    /\ \E k \in 1..Len(completed_trades) : completed_trades[k].date = 2
    /\ pnl_df.row[2].inventory_pnl # 0

\* C15: a call of add_quoted_trade appends exactly one record, its
\* argument, to the quote log and leaves the position map, the
\* completed-trade log and the hedge log unchanged; no other call changes
\* the quote log.
C15_QuoteOnlyGrowsLog ==
    [][/\ (pc = "idle" /\ last_call'.op = "add_quoted_trade"
              /\ quoted_trades' # quoted_trades) =>
             /\ Len(quoted_trades') = Len(quoted_trades) + 1
             /\ SubSeq(quoted_trades', 1, Len(quoted_trades)) = quoted_trades
             /\ quoted_trades'[Len(quoted_trades')].ticker = last_call'.ticker
             /\ current_positions' = current_positions
             /\ completed_trades' = completed_trades
             /\ ETF_positions' = ETF_positions
       /\ (pc = "idle" /\ last_call'.op # "add_quoted_trade") =>
             quoted_trades' = quoted_trades
      ]_vars

C15_Witness ==
    /\ last_call.op = "add_quoted_trade"
    /\ Len(quoted_trades) = 2
    /\ quoted_trades[1] # quoted_trades[2]
    /\ Len(completed_trades) >= 1
    /\ Len(ETF_positions) >= 1
    /\ DOMAIN current_positions # {}

\* a call of the named helper has returned
Called(fn) == calc # EmptyMap /\ calc.fn = fn

\* C16: for positive volume and price and non-negative fees,
\* transaction_cost is fee_rate * volume * price + fee_per_unit * volume,
\* and the costs of two trades at one price and fee schedule add up to the
\* cost of one trade of their total volume.
C16_CostLinear ==
    Called("transaction_cost") =>
       /\ calc.cost1 = calc.fee_rate * calc.volume1 * calc.price
                       + calc.fee_per_unit * calc.volume1
       /\ calc.cost2 = calc.fee_rate * calc.volume2 * calc.price
                       + calc.fee_per_unit * calc.volume2
       /\ calc.cost1 + calc.cost2 = calc.merged

C16_Witness ==
    /\ Called("transaction_cost")
    /\ calc.volume1 # calc.volume2
    /\ calc.fee_rate > 0
    /\ calc.fee_per_unit > 0
    /\ calc.merged > calc.cost1

\* the spread a quote call uses and current_price * max_skew, in
\* 1 / QuoteScale
QuoteSpread == calc.current_price * calc.base_spread * (QuoteScale \div 100)
QuoteSkewBound == calc.current_price * calc.max_skew * (QuoteScale \div 100)

\* C17: fixed_quote and skewed_quote both return bid < offer when the
\* spread is positive, and the skew skewed_quote applies is strictly inside
\* the bound for every inventory: |skew| < current_price * max_skew, never
\* equal to it.
C17_SkewStrictlyBounded ==
    /\ Called("fixed_quote") =>
          (QuoteSpread > 0 => calc.quote.bid_price < calc.quote.offer_price)
    /\ Called("skewed_quote") =>
          /\ QuoteSpread > 0 => calc.quote.bid_price < calc.quote.offer_price
          /\ Abs(calc.quote.skew.value) <= QuoteSkewBound
          /\ ~calc.quote.skew.at_bound

\* C18: Exchange.execute returns a report for every order: its trade_price
\* is the table price when the table has the order's date and ticker and
\* the order's ref_price otherwise, and its ticker, trade_volume, action and
\* date are those of the order.
C18_ExecuteFallsBack ==
    Called("execute") =>
       LET o == calc.trade
           r == calc.report
           rows == {k \in 1..Len(calc.prices) : calc.prices[k].date = o.date}
           hit == rows # {} /\ o.ticker \in PriceColumns
       IN  /\ r.ticker = o.ticker
           /\ r.trade_volume = o.trade_volume
           /\ r.action = o.action
           /\ r.date = o.date
           /\ hit => \E k \in rows : r.trade_price = calc.prices[k].px[o.ticker]
           /\ ~hit => r.trade_price = o.ref_price

C18_Witness ==
    /\ Called("execute")
    /\ calc.trade.ticker = "X"
    /\ calc.trade.date = 3
    /\ calc.report.trade_price = calc.trade.ref_price
    /\ calc.report.action = "sell"

\* C19: on the first date inventory_pnl and hedge_pnl are 0; on every later
\* date d they are the price move from the previous date applied to the
\* inventories as they stood after the previous date, i.e. to the trades
\* dated up to the previous date, the hedge book scaled by its multiplier;
\* the trades dated d do not enter them.
C19_PriceMoveUsesPreviousInventory ==
    PnlDone =>
       \A k \in 1..Len(pnl_df.index) :
          LET d == pnl_df.index[k]
              prev == IF k = 1 THEN NoDate ELSE pnl_df.index[k - 1]
              delta(t) == PriceAt(d, t) - PriceAt(prev, t)
          IN  IF k = 1
              THEN /\ pnl_df.row[d].inventory_pnl = 0
                   /\ pnl_df.row[d].hedge_pnl = 0
              ELSE /\ pnl_df.row[d].inventory_pnl =
                         SumOver(PriceColumns, [t \in PriceColumns |->
                            VolumeUpTo(Calls(completed_trades, <<>>), t, prev)
                            * delta(t)])
                   /\ pnl_df.row[d].hedge_pnl =
                         SumOver(PriceColumns, [t \in PriceColumns |->
                            VolumeUpTo(Calls(<<>>, ETF_positions), t, prev)
                            * MultOf(t) * delta(t)])

C19_Witness ==
    /\ pc = "pnl_done"
    /\ PriceAt(1, "X") # PriceAt(2, "X")
    /\ "X" \in DOMAIN futures_multipliers
    /\ Len(completed_trades) = 2
    /\ completed_trades[1].ticker = "X" /\ completed_trades[1].date = 1
    /\ completed_trades[2].ticker = "X" /\ completed_trades[2].date = 2
    /\ completed_trades[1].mm_action = "buy"
    /\ completed_trades[2].mm_action = "buy"
    /\ Len(ETF_positions) = 1
    /\ ETF_positions[1].date = 1
    /\ pnl_df.row[2].inventory_pnl = 50
    /\ pnl_df.row[2].hedge_pnl # 0

\* C20: client trades change only the client inventory, spread_pnl,
\* client_cost and cash; hedge trades change only the hedge inventory,
\* hedge_cost and cash.  So the client columns of the returned table are
\* those of the ledger without its hedge trades, the hedge columns those of
\* the ledger without its client trades, each of these two ledgers has 0 in
\* the other's columns, and the equities add up.
C20_ClientAndHedgeSeparate ==
    /\ pc = "pnl_loop" =>
          \A t \in Tickers :
             /\ att.inventory_main[t] =
                   VolumeUpTo(Calls(completed_trades, <<>>), t,
                              att.prev_date)
             /\ att.inventory_hedge[t] =
                   VolumeUpTo(Calls(<<>>, ETF_positions), t, att.prev_date)
    /\ pc = "pnl_done" =>
          LET clients == compute_pnl_with_attribution(
                            completed_trades, <<>>, prices, fees,
                            futures_multipliers)
              hedges == compute_pnl_with_attribution(
                            <<>>, ETF_positions, prices, fees,
                            futures_multipliers)
          IN  \A d \in DOMAIN pnl_df.row :
                 /\ pnl_df.row[d].spread_pnl = clients.row[d].spread_pnl
                 /\ pnl_df.row[d].client_cost = clients.row[d].client_cost
                 /\ pnl_df.row[d].inventory_pnl = clients.row[d].inventory_pnl
                 /\ pnl_df.row[d].hedge_cost = hedges.row[d].hedge_cost
                 /\ pnl_df.row[d].hedge_pnl = hedges.row[d].hedge_pnl
                 /\ clients.row[d].hedge_cost = 0
                 /\ clients.row[d].hedge_pnl = 0
                 /\ hedges.row[d].spread_pnl = 0
                 /\ hedges.row[d].client_cost = 0
                 /\ hedges.row[d].inventory_pnl = 0
                 /\ pnl_df.row[d].equity =
                       clients.row[d].equity + hedges.row[d].equity

C20_Witness ==
    /\ pc = "pnl_done"
    /\ fees.fee_rate_client # 0
    /\ PriceAt(1, "X") # PriceAt(2, "X")
    /\ \E i \in 1..Len(completed_trades) :
          /\ completed_trades[i].ticker = "X"
          /\ completed_trades[i].date = 1
          /\ completed_trades[i].mm_action = "buy"
    /\ Len(ETF_positions) = 1
    /\ ETF_positions[1].date = 1
    /\ ETF_positions[1].action = "buy"
    /\ att.inventory_main["X"] # 0
    /\ att.inventory_hedge["X"] # 0

\* C21: a call of add_trade or update_ETF_position that is rejected for an
\* unknown action leaves the whole ledger as it was: the completed-trade log
\* and the hedge log have the same length and content as before the call.
C21_RejectedCallLeavesLedger ==
    [][(/\ ingested' # ingested
        /\ last_call'.status = "error")
       => (/\ completed_trades' = completed_trades
           /\ ETF_positions' = ETF_positions
           /\ quoted_trades' = quoted_trades
           /\ current_positions' = current_positions)]_vars

\* every trade of the two logs was accepted by the ingestion call that logged
\* it, so that the position map was built from the same trades as the logs
LogsAccepted ==
    /\ \A k \in 1..Len(completed_trades) :
          completed_trades[k].mm_action \in ValidActions
    /\ \A k \in 1..Len(ETF_positions) :
          ETF_positions[k].action \in ValidActions

\* C22: the replay applies every trade of the completed-trade log and of the
\* hedge log exactly once: after the last date of compute_pnl_with_attribution,
\* for every instrument, the client inventory plus the hedge inventory equals
\* the position volume the ledger built by add_trade and update_ETF_position
\* from the same trades, whatever the dates of the trades are relative to the
\* dates of the price table.
C22_ReplayMatchesLedger ==
    (pc = "pnl_done" /\ LogsAccepted)
    => \A i \in Tickers :
          att.inventory_main[i] + att.inventory_hedge[i]
             = PositionVolume(current_positions, i)

====
